---- MODULE Spec2Model ----
(***************************************************************************)
(* Model of chronoton's share-dealing backtest engine,                     *)
(* execute_backtest_loop in                                                *)
(* src/ShareDealing/_execute_backtest_loop_ShareDealing.py.                *)
(*                                                                         *)
(* The engine is a loop over the bars 1..N-1 of a price series.  One       *)
(* action of the model is one iteration of that loop (or the code before   *)
(* and after it).  The input arrays are fixed when the function is called, *)
(* but the loop reads row i only in iteration i, so the model draws row i  *)
(* when iteration i runs and keeps the row last read in `bar`.             *)
(*                                                                         *)
(* Doubles are modelled as exact rationals <<n, d>> in lowest terms with   *)
(* d > 0; <<0, 0>> is NaN.  Rounding of IEEE-754 arithmetic is not         *)
(* modelled.                                                               *)
(*                                                                         *)
(* Two calls of the engine run side by side on related inputs: `run` and   *)
(* `twin`.  The twin gets either a configuration with commissions at least *)
(* as high, or the same configuration and one close price replaced by NaN. *)
(***************************************************************************)
EXTENDS Integers, Sequences, FiniteSets, TLC

VARIABLES
    pc,             \* "entry" | "loop" | "done" | "error"
    feed,           \* "free": rows drawn per bar; "A": the rows of Scenario A
    N,              \* data.shape[0]
    i,              \* loop index: the next bar of range(1, data_length)
    bar,            \* the row of the inputs at the index last drawn
    config,         \* commission, commission_pct passed to the call
    starting_cash,  \* EngineConfig.starting_cash the caller asked for
    run,            \* the locals of the call
    twinConfig,     \* commission, commission_pct of the twin call
    twin,           \* the locals of the twin call
    nanK,           \* -1: twin sees the same prices; 0: NaN not yet inserted;
                    \* k >= 1: the twin's close at bar k, a bar where all
                    \* four signals are false, was replaced by NaN
    lens,           \* the lengths of the four signal arrays
    exc,            \* the exception that ended the call, or "none"
    calls,          \* the number of calls made so far
    obj,            \* the result attributes of a ShareSAST object
    logic,          \* which of the four logic callables the object has
    df,             \* the data passed to run_backtest: per row the close and
                    \* what the logic callables return for it
    args,           \* commission, commission_pct passed to run_backtest
    ret,            \* how the method called last ended: "none", "self" or
                    \* the name of the exception
    method,         \* the method of the object called last, or "none"
    ran             \* a run_backtest has completed on the object and no
                    \* clear_backtest_results or clear_all was called since

engineVars ==
    <<pc, feed, N, i, bar, config, starting_cash, run, twinConfig, twin,
      nanK, lens, exc, calls>>
sastVars == <<obj, logic, df, args, ret, method, ran>>
vars == <<engineVars, sastVars>>

----------------------------------------------------------------------------
(* Bounds *)

MaxBars == 4
\* rows of the data passed to run_backtest
MaxRows == 2

----------------------------------------------------------------------------
(* Doubles as exact rationals *)

RECURSIVE GCD(_, _)
GCD(a, b) == IF b = 0 THEN a ELSE GCD(b, a % b)

Abs(x) == IF x < 0 THEN -x ELSE x

Norm(n, d) ==
    LET s == IF d < 0 THEN -1 ELSE 1
        g == GCD(Abs(n), Abs(d))
    IN  <<(s * n) \div g, (s * d) \div g>>

R(k) == <<k, 1>>
NaN == <<0, 0>>
isnan(x) == x[2] = 0

\* Arithmetic on a NaN gives NaN; a comparison with a NaN is false.
RAdd(a, b) ==
    IF isnan(a) \/ isnan(b) THEN NaN
    ELSE Norm(a[1] * b[2] + b[1] * a[2], a[2] * b[2])
RSub(a, b) ==
    IF isnan(a) \/ isnan(b) THEN NaN
    ELSE Norm(a[1] * b[2] - b[1] * a[2], a[2] * b[2])
RMul(a, b) ==
    IF isnan(a) \/ isnan(b) THEN NaN
    ELSE LET g1 == GCD(Abs(a[1]), b[2])
             g2 == GCD(Abs(b[1]), a[2])
         IN  Norm((a[1] \div g1) * (b[1] \div g2),
                  (a[2] \div g2) * (b[2] \div g1))
RDiv(a, b) ==
    IF isnan(a) \/ isnan(b) THEN NaN
    ELSE RMul(a, Norm(b[2], b[1]))
RLe(a, b) == ~isnan(a) /\ ~isnan(b) /\ a[1] * b[2] <= b[1] * a[2]

----------------------------------------------------------------------------
(* Inputs *)

Closes == {NaN, R(50), R(100)}

Commissions == {R(0), R(25)}
CommissionPcts == {R(0), <<1, 4>>}
Configs == [commission : Commissions, commission_pct : CommissionPcts]
ZeroConfig == [commission |-> R(0), commission_pct |-> R(0)]
\* a configuration outside the contract: a negative fixed commission
NegConfig == [commission |-> R(-50), commission_pct |-> R(0)]

\* Lengths of buy_signals, sell_signals, short_signals, cover_signals.
AllLen(n) == [buy |-> n, sell |-> n, short |-> n, cover |-> n]
\* Lengths that do not match a series of n >= 1 bars.
Mismatched(n) ==
    {[AllLen(n) EXCEPT !.buy = n - 1],
     [AllLen(n) EXCEPT !.cover = n - 1],
     AllLen(n + 1)}

Rows == [price : Closes, buy : BOOLEAN, sell : BOOLEAN,
         short : BOOLEAN, cover : BOOLEAN]

Row(p, b, s, sh, c) ==
    [price |-> p, buy |-> b, sell |-> s, short |-> sh, cover |-> c]

ScenarioA ==
    [k \in 0..4 |->
        Row(R(CASE k = 0 -> 100 [] k = 1 -> 100 [] k = 2 -> 101
                [] k = 3 -> 102 [] k = 4 -> 101),
            k = 1, k = 3, FALSE, FALSE)]

RowsAt(k) == IF feed = "A" THEN {ScenarioA[k]} ELSE Rows

----------------------------------------------------------------------------
(* The engine: execute_backtest_loop *)

One == R(1)
Two == R(2)

\* cdef double cash = 10000.0
StartingCash == 10000

\* np.zeros(data_length): indices 0..n-1
Zeros(n) == [k \in 0..(n - 1) |-> R(0)]

\* The locals after the declarations, before equity_curve[0] is written.
\* `assigned` is the set of indices of equity_curve the engine has written.
Locals(n) ==
    [position |-> 0, entry_price |-> R(0), entry_idx |-> 0,
     cash |-> R(StartingCash), shares |-> R(0), trades |-> <<>>,
     equity_curve |-> Zeros(n), assigned |-> {}]

\* equity_curve[k] = v
SetEquity(st, k, v) ==
    [st EXCEPT !.equity_curve = [@ EXCEPT ![k] = v],
               !.assigned = @ \cup {k}]

\* equity_curve[0] = cash
SeedEquity(st) == SetEquity(st, 0, st.cash)

\* Variant: the NaN bar is marked with the cash instead of the prior equity.
SkipNaN_WritesCash(st, k) == SetEquity(st, k, st.cash)

\* if isnan(price): equity_curve[i] = equity_curve[i-1]; continue
SkipNaN(st, k) == SetEquity(st, k, st.equity_curve[k - 1])

\* Variant: the position is sized without the commissions.
EntryShares_NoCommission(cash, price, cfg) == RDiv(cash, price)

\* cash / (price * (1.0 + commission_pct) + commission)
EntryShares(cash, price, cfg) ==
    RDiv(cash, RAdd(RMul(price, RAdd(One, cfg.commission_pct)), cfg.commission))

\* (price * shares * commission_pct) + commission
TradeCommission(price, shares, cfg) ==
    RAdd(RMul(RMul(price, shares), cfg.commission_pct), cfg.commission)

\* the dict appended when a position is opened
EntryRecord(k, price, direction, shares) ==
    [entry_idx |-> k, entry_price |-> price, direction |-> direction,
     shares |-> shares]

\* trades[-1].update({...}): the exit keys are added to the last dict
ExitUpdate(trades, k, price, profit, duration) ==
    [trades EXCEPT ![Len(trades)] =
        [exit_idx |-> k, exit_price |-> price, profit |-> profit,
         duration |-> duration] @@ @]

\* if buy_signals[i]: ...
OpenLong(st, k, price, cfg) ==
    LET sh == EntryShares(st.cash, price, cfg)
    IN  [st EXCEPT !.position = 1, !.entry_price = price, !.entry_idx = k,
                   !.shares = sh, !.cash = R(0),
                   !.trades = Append(@, EntryRecord(k, price, "long", sh))]

\* Variant: a short entry leaves the cash in place.
OpenShort_KeepsCash(st, k, price, cfg) ==
    LET sh == EntryShares(st.cash, price, cfg)
    IN  [st EXCEPT !.position = -1, !.entry_price = price, !.entry_idx = k,
                   !.shares = sh,
                   !.trades = Append(@, EntryRecord(k, price, "short", sh))]

\* elif short_signals[i]: ...
OpenShort(st, k, price, cfg) ==
    LET sh == EntryShares(st.cash, price, cfg)
    IN  [st EXCEPT !.position = -1, !.entry_price = price, !.entry_idx = k,
                   !.shares = sh, !.cash = R(0),
                   !.trades = Append(@, EntryRecord(k, price, "short", sh))]

\* Variant: the profit of a sale leaves out the commission.
CloseLong_GrossProfit(st, k, price, cfg) ==
    LET tc == TradeCommission(price, st.shares, cfg)
        profit == RMul(RSub(price, st.entry_price), st.shares)
    IN  [st EXCEPT !.cash = RSub(RMul(price, st.shares), tc),
                   !.trades = ExitUpdate(@, k, price, profit, k - st.entry_idx),
                   !.position = 0, !.shares = R(0)]

\* Variant: the sale forgets to reset the position.
CloseLong_KeepsPosition(st, k, price, cfg) ==
    LET tc == TradeCommission(price, st.shares, cfg)
        profit == RSub(RMul(RSub(price, st.entry_price), st.shares), tc)
    IN  [st EXCEPT !.cash = RSub(RMul(price, st.shares), tc),
                   !.trades = ExitUpdate(@, k, price, profit, k - st.entry_idx),
                   !.shares = R(0)]

\* if sell_signals[i]: ...
CloseLong(st, k, price, cfg) ==
    LET tc == TradeCommission(price, st.shares, cfg)
        profit == RSub(RMul(RSub(price, st.entry_price), st.shares), tc)
    IN  [st EXCEPT !.cash = RSub(RMul(price, st.shares), tc),
                   !.trades = ExitUpdate(@, k, price, profit, k - st.entry_idx),
                   !.position = 0, !.shares = R(0)]

\* Variant: a cover is paid out like a sale.
CloseShort_CashAsLong(st, k, price, cfg) ==
    LET tc == TradeCommission(price, st.shares, cfg)
        profit == RSub(RMul(RSub(st.entry_price, price), st.shares), tc)
    IN  [st EXCEPT !.cash = RSub(RMul(price, st.shares), tc),
                   !.trades = ExitUpdate(@, k, price, profit, k - st.entry_idx),
                   !.position = 0, !.shares = R(0)]

\* if cover_signals[i]: ...
CloseShort(st, k, price, cfg) ==
    LET tc == TradeCommission(price, st.shares, cfg)
        value == RMul(RSub(RMul(Two, st.entry_price), price), st.shares)
        profit == RSub(RMul(RSub(st.entry_price, price), st.shares), tc)
    IN  [st EXCEPT !.cash = RSub(value, tc),
                   !.trades = ExitUpdate(@, k, price, profit, k - st.entry_idx),
                   !.position = 0, !.shares = R(0)]

\* Variant: a short signal closes a long position (stop and reverse).
ProcessSignals_ShortClosesLong(st, k, row, cfg) ==
    IF st.position = 0
    THEN IF row.buy THEN OpenLong(st, k, row.price, cfg)
         ELSE IF row.short THEN OpenShort(st, k, row.price, cfg)
         ELSE st
    ELSE IF st.position = 1
    THEN IF row.sell \/ row.short THEN CloseLong(st, k, row.price, cfg)
         ELSE st
    ELSE IF st.position = -1
    THEN IF row.cover THEN CloseShort(st, k, row.price, cfg) ELSE st
    ELSE st

\* Variant: the bar that closes a position can open the next one.
ProcessSignals_ReopensOnClose(st, k, row, cfg) ==
    LET reopen(cl) ==
            IF row.buy THEN OpenLong(cl, k, row.price, cfg)
            ELSE IF row.short THEN OpenShort(cl, k, row.price, cfg)
            ELSE cl
    IN  IF st.position = 0
        THEN IF row.buy THEN OpenLong(st, k, row.price, cfg)
             ELSE IF row.short THEN OpenShort(st, k, row.price, cfg)
             ELSE st
        ELSE IF st.position = 1
        THEN IF row.sell THEN reopen(CloseLong(st, k, row.price, cfg)) ELSE st
        ELSE IF st.position = -1
        THEN IF row.cover THEN reopen(CloseShort(st, k, row.price, cfg))
             ELSE st
        ELSE st

\* Variant: the short signal is tested before the buy signal.
ProcessSignals_ShortFirst(st, k, row, cfg) ==
    IF st.position = 0
    THEN IF row.short THEN OpenShort(st, k, row.price, cfg)
         ELSE IF row.buy THEN OpenLong(st, k, row.price, cfg)
         ELSE st
    ELSE IF st.position = 1
    THEN IF row.sell THEN CloseLong(st, k, row.price, cfg) ELSE st
    ELSE IF st.position = -1
    THEN IF row.cover THEN CloseShort(st, k, row.price, cfg) ELSE st
    ELSE st

\* if position == 0: ... elif position == 1: ... elif position == -1: ...
ProcessSignals(st, k, row, cfg) ==
    IF st.position = 0
    THEN IF row.buy THEN OpenLong(st, k, row.price, cfg)
         ELSE IF row.short THEN OpenShort(st, k, row.price, cfg)
         ELSE st
    ELSE IF st.position = 1
    THEN IF row.sell THEN CloseLong(st, k, row.price, cfg) ELSE st
    ELSE IF st.position = -1
    THEN IF row.cover THEN CloseShort(st, k, row.price, cfg) ELSE st
    ELSE st

\* Variant: the branch for a short position is missing.
UpdateEquity_NoShort(st, k, price) ==
    IF st.position = 0 THEN SetEquity(st, k, st.cash)
    ELSE IF st.position = 1 THEN SetEquity(st, k, RMul(st.shares, price))
    ELSE st

\* Variant: a short position is valued like a long one.
UpdateEquity_ShortAsLong(st, k, price) ==
    IF st.position = 0 THEN SetEquity(st, k, st.cash)
    ELSE SetEquity(st, k, RMul(st.shares, price))

\* Variant: a long position is valued at its entry price.
UpdateEquity_AtEntryPrice(st, k, price) ==
    IF st.position = 0 THEN SetEquity(st, k, st.cash)
    ELSE IF st.position = 1
    THEN SetEquity(st, k, RMul(st.shares, st.entry_price))
    ELSE IF st.position = -1
    THEN SetEquity(st, k,
            RMul(RSub(RMul(Two, st.entry_price), price), st.shares))
    ELSE st

\* Update equity curve
UpdateEquity(st, k, price) ==
    IF st.position = 0 THEN SetEquity(st, k, st.cash)
    ELSE IF st.position = 1 THEN SetEquity(st, k, RMul(st.shares, price))
    ELSE IF st.position = -1
    THEN SetEquity(st, k,
            RMul(RSub(RMul(Two, st.entry_price), price), st.shares))
    ELSE st

\* Variant: the NaN guard is missing.
LoopBody_NoNaNGuard(st, k, row, cfg) ==
    UpdateEquity(ProcessSignals(st, k, row, cfg), k, row.price)

\* the body of `for i in range(1, data_length)` for one bar
LoopBody(st, k, row, cfg) ==
    IF isnan(row.price) THEN SkipNaN(st, k)
    ELSE UpdateEquity(ProcessSignals(st, k, row, cfg), k, row.price)

----------------------------------------------------------------------------
(* Calls *)

\* Commission pairs of the twin: each component at least the run's.
Above(cfg) ==
    {c \in Configs : /\ RLe(cfg.commission, c.commission)
                     /\ RLe(cfg.commission_pct, c.commission_pct)}

\* Starting cash a caller may configure (EngineConfig.starting_cash).
StartingCashes == {R(StartingCash), R(StartingCash \div 2)}

\* The calls explored on free rows: the twin either repeats the run's
\* configuration and may get a NaN inserted, or has higher commissions.  The
\* configured starting cash is varied on the calls without commissions.
\* Calls outside the contract: a negative commission, or signal arrays whose
\* lengths differ from the number of bars.
FreeSetups ==
    {[n |-> n, config |-> c, twinConfig |-> c, nanK |-> 0,
      starting_cash |-> R(StartingCash), lens |-> AllLen(n)] :
     n \in 0..MaxBars, c \in Configs}
    \cup
    UNION {[n : {n}, config : {c}, twinConfig : Above(c) \ {c}, nanK : {-1},
            starting_cash : IF c = ZeroConfig THEN StartingCashes
                            ELSE {R(StartingCash)},
            lens : {AllLen(n)}] :
           n \in 0..MaxBars, c \in Configs}
    \cup
    {[n |-> n, config |-> NegConfig, twinConfig |-> NegConfig, nanK |-> -1,
      starting_cash |-> R(StartingCash), lens |-> AllLen(n)] :
     n \in 0..MaxBars}
    \cup
    UNION {[n : {n}, config : {ZeroConfig}, twinConfig : {ZeroConfig},
            nanK : {-1}, starting_cash : {R(StartingCash)},
            lens : Mismatched(n)] : n \in 1..MaxBars}

\* A ShareSAST object after __init__: none of equity_curve, trades, summary
\* and analysis is set.  attrs is the set of those attributes that are set.
NewObject ==
    [attrs |-> {}, equity_curve |-> <<>>, trades |-> <<>>, summary |-> <<>>,
     analysis |-> <<>>]

AllLogic == [buy |-> TRUE, sell |-> TRUE, short |-> TRUE, cover |-> TRUE]
NoLogic == [buy |-> FALSE, sell |-> FALSE, short |-> FALSE, cover |-> FALSE]

\* no ShareSAST object is in use
NoObject ==
    /\ obj = NewObject
    /\ logic = NoLogic
    /\ df = <<>>
    /\ args = ZeroConfig
    /\ ret = "none"
    /\ method = "none"
    /\ ran = FALSE

Init ==
    /\ pc = "entry"
    /\ i = 0
    /\ exc = "none"
    /\ calls = 1
    /\ \/ /\ feed = "free"
          /\ \E s \in FreeSetups :
                /\ N = s.n
                /\ config = s.config
                /\ starting_cash = s.starting_cash
                /\ twinConfig = s.twinConfig
                /\ nanK = s.nanK
                /\ lens = s.lens
       \/ /\ feed = "A"
          /\ N = 5
          /\ config = ZeroConfig
          /\ starting_cash = R(StartingCash)
          /\ twinConfig = config
          /\ nanK = -1
          /\ lens = AllLen(5)
    /\ bar \in RowsAt(0)
    /\ run = Locals(N)
    /\ twin = Locals(N)
    /\ NoObject

\* Variant: the trade list outlives the call (a list shared between calls).
Enter_KeepsTrades(prev, n) ==
    SeedEquity([Locals(n) EXCEPT !.trades = prev.trades])

\* The locals of a call on n bars once equity_curve[0] is written (lines
\* 31-45); prev is what the previous call left in them.
Enter(prev, n) == SeedEquity(Locals(n))

\* Variant: the signals of bar 0 are processed as well.
Call_ProcessesBarZero ==
    /\ pc = "entry"
    /\ IF N = 0
       THEN /\ pc' = "error"
            /\ exc' = "IndexError"
            /\ UNCHANGED <<i, run, twin>>
       ELSE /\ pc' = "loop"
            /\ i' = 1
            /\ run' = IF isnan(bar.price) THEN Enter(run, N)
                      ELSE UpdateEquity(
                              ProcessSignals(Enter(run, N), 0, bar, config),
                              0, bar.price)
            /\ twin' = Enter(twin, N)
            /\ UNCHANGED exc
    /\ UNCHANGED <<feed, N, bar, config, starting_cash, twinConfig, nanK,
                   lens, calls>>
    /\ UNCHANGED sastVars

\* Lines 31-45.  Writing equity_curve[0] of an empty array raises IndexError
\* (bounds checking is on by default).
Call ==
    /\ pc = "entry"
    /\ IF N = 0
       THEN /\ pc' = "error"
            /\ exc' = "IndexError"
            /\ UNCHANGED <<i, run, twin>>
       ELSE /\ pc' = "loop"
            /\ i' = 1
            /\ run' = Enter(run, N)
            /\ twin' = Enter(twin, N)
            /\ UNCHANGED exc
    /\ UNCHANGED <<feed, N, bar, config, starting_cash, twinConfig, nanK,
                   lens, calls>>
    /\ UNCHANGED sastVars

Quiet(row) == ~row.buy /\ ~row.sell /\ ~row.short /\ ~row.cover

\* The branch of the loop body the run takes on a row.
Branch(row) ==
    IF isnan(row.price) THEN "nan"
    ELSE IF run.position = 0 THEN "flat"
    ELSE IF run.position = 1 THEN "long"
    ELSE "short"

\* price * (1.0 + commission_pct) + commission
Divisor(price, cfg) ==
    RAdd(RMul(price, RAdd(One, cfg.commission_pct)), cfg.commission)

\* The exception the loop body raises for bar k, or "none": a signal array
\* is indexed at or beyond its length (IndexError), or the entry divides by
\* zero (ZeroDivisionError; C division is off by default).  The signal
\* arrays are read in the order of the branches.
Raised(st, k, row, cfg) ==
    IF isnan(row.price) THEN "none"
    ELSE IF st.position = 0
    THEN IF k >= lens.buy THEN "IndexError"
         ELSE IF row.buy
         THEN IF Divisor(row.price, cfg) = R(0) THEN "ZeroDivisionError"
              ELSE "none"
         ELSE IF k >= lens.short THEN "IndexError"
         ELSE IF row.short /\ Divisor(row.price, cfg) = R(0)
         THEN "ZeroDivisionError"
         ELSE "none"
    ELSE IF st.position = 1
    THEN IF k >= lens.sell THEN "IndexError" ELSE "none"
    ELSE IF k >= lens.cover THEN "IndexError" ELSE "none"

\* One iteration of the loop in both calls, on a row that sends the run
\* into the given branch.  An exception ends the call: the locals are
\* discarded and nothing is returned.  The twin has the run's array lengths
\* and, wherever an exception is possible, the run's configuration and rows.
Iteration(branch) ==
    /\ pc = "loop"
    /\ i < N
    /\ \E row \in RowsAt(i) :
          /\ Branch(row) = branch
          /\ bar' = row
          /\ IF Raised(run, i, row, config) # "none"
             THEN /\ pc' = "error"
                  /\ exc' = Raised(run, i, row, config)
                  /\ UNCHANGED <<i, run, twin, nanK>>
             ELSE /\ i' = i + 1
                  /\ run' = LoopBody(run, i, row, config)
                  /\ \E insert \in (IF nanK = 0 /\ Quiet(row) THEN BOOLEAN
                                      ELSE {FALSE}) :
                        IF insert
                        THEN /\ nanK' = i
                             /\ twin' = LoopBody(twin, i,
                                            [row EXCEPT !.price = NaN],
                                            twinConfig)
                        ELSE /\ UNCHANGED nanK
                             /\ twin' = LoopBody(twin, i, row, twinConfig)
                  /\ UNCHANGED <<pc, exc>>
    /\ UNCHANGED <<feed, N, config, starting_cash, twinConfig, lens, calls>>
    /\ UNCHANGED sastVars

NaNBar == Iteration("nan")
FlatBar == Iteration("flat")
LongBar == Iteration("long")
ShortBar == Iteration("short")

\* Variant: a position still open at the end is written off as a closed
\* trade with zero profit.
Return_ClosesOpen ==
    /\ pc = "loop"
    /\ i >= N
    /\ pc' = "done"
    /\ run' = IF run.position = 0 THEN run
              ELSE [run EXCEPT !.trades =
                        ExitUpdate(@, N - 1, run.entry_price, R(0),
                                   N - 1 - run.entry_idx)]
    /\ UNCHANGED <<feed, N, i, bar, config, starting_cash, twinConfig,
                   twin, nanK, lens, exc, calls>>
    /\ UNCHANGED sastVars

\* return equity_curve, trades
Return ==
    /\ pc = "loop"
    /\ i >= N
    /\ pc' = "done"
    /\ UNCHANGED <<feed, N, i, bar, config, starting_cash, run, twinConfig,
                   twin, nanK, lens, exc, calls>>
    /\ UNCHANGED sastVars

\* The caller calls the engine a second time, on the rows of Scenario A,
\* after a call that returned or raised (lines 5-45 of the second call).
CallAgain ==
    /\ pc \in {"done", "error"}
    /\ calls = 1
    /\ calls' = 2
    /\ feed' = "A"
    /\ N' = 5
    /\ lens' = AllLen(5)
    /\ config' = ZeroConfig
    /\ twinConfig' = ZeroConfig
    /\ starting_cash' = R(StartingCash)
    /\ nanK' = -1
    /\ bar' = ScenarioA[0]
    /\ exc' = "none"
    /\ pc' = "loop"
    /\ i' = 1
    /\ run' = Enter(run, 5)
    /\ twin' = Enter(twin, 5)
    /\ UNCHANGED sastVars

Next ==
    Call \/ NaNBar \/ FlatBar \/ LongBar \/ ShortBar \/ Return \/ CallAgain

Spec == Init /\ [][Next]_vars

----------------------------------------------------------------------------
(* The caller: ShareSAST.run_backtest *)

\* Rows of the data passed to run_backtest: at most one logic fires per row.
SastRows ==
    {r \in Rows : Cardinality({f \in {"buy", "sell", "short", "cover"} : r[f]})
                    <= 1}

RECURSIVE SeqsUpTo(_, _)
SeqsUpTo(S, n) ==
    IF n = 0 THEN {<<>>}
    ELSE LET shorter == SeqsUpTo(S, n - 1)
         IN  shorter \cup {Append(q, x) : q \in {t \in shorter : Len(t) = n - 1},
                                          x \in S}

Logics == {AllLogic, [AllLogic EXCEPT !.short = FALSE, !.cover = FALSE], NoLogic}

\* _validate_strategy: at least one pair of opposing logic callables
ValidStrategy(lg) == (lg.buy /\ lg.sell) \/ (lg.short /\ lg.cover)

\* _validate_data on a numpy array: no NaN in the data
ValidData(d) == \A k \in 1..Len(d) : ~isnan(d[k].price)

\* _prepare_signals: the array a callable returns, zeros for a missing one
PrepareSignals(d, lg) ==
    [k \in 1..Len(d) |->
        Row(d[k].price, lg.buy /\ d[k].buy, lg.sell /\ d[k].sell,
            lg.short /\ d[k].short, lg.cover /\ d[k].cover)]

\* execute_backtest_loop on whole arrays of n >= 1 rows (signal arrays of
\* length n, divisor never zero): the locals after bar k
RECURSIVE LocalsAfter(_, _, _)
LocalsAfter(k, rows, cfg) ==
    IF k = 0 THEN Enter(Locals(Len(rows)), Len(rows))
    ELSE LoopBody(LocalsAfter(k - 1, rows, cfg), k, rows[k + 1], cfg)

\* return equity_curve, trades
execute_backtest_loop(rows, cfg) ==
    LET st == LocalsAfter(Len(rows) - 1, rows, cfg)
    IN  [equity_curve |-> st.equity_curve, trades |-> st.trades]

\* run_backtest (lines 58-85) on a numpy array: the strategy and the data
\* are validated, the signals and the data are prepared, and the call of
\* line 78 evaluates the name `signals`, which is bound nowhere: NameError.
\* Lines 81-85, which store the results, are never reached.
RunBacktestOutcome ==
    IF ~ValidStrategy(logic) THEN "ValueError"
    ELSE IF ~ValidData(df) THEN "ValueError"
    ELSE "NameError"

RunBacktest ==
    /\ method' = "run_backtest"
    /\ ret' = RunBacktestOutcome
    /\ obj' = obj
    /\ ran' = (ran \/ ret' = "self")
    /\ UNCHANGED <<logic, df, args>>
    /\ UNCHANGED engineVars

hasattr(o, name) == name \in o.attrs

\* del self.<name>
delattr(o, name) == [o EXCEPT !.attrs = @ \ {name}, ![name] = <<>>]

\* self.<name> = value
setattr(o, name, value) == [o EXCEPT !.attrs = @ \cup {name}, ![name] = value]

\* Variant: analyze does not ask for a summary.
AnalyzeOutcome_NoGuard(o, detailed, monte_carlo, plots) ==
    IF detailed \/ monte_carlo \/ plots THEN "AttributeError"
    ELSE "self"

\* analyze (lines 105-136): without a summary RuntimeError; the helpers
\* _calculate_advanced_metrics, _run_monte_carlo and _generate_plots are
\* defined nowhere in the class, so a call with one of the flags set ends in
\* AttributeError before self.analysis is assigned.
AnalyzeOutcome(o, detailed, monte_carlo, plots) ==
    IF ~hasattr(o, "summary") THEN "RuntimeError"
    ELSE IF detailed \/ monte_carlo \/ plots THEN "AttributeError"
    ELSE "self"

Analyze ==
    /\ \E detailed \in BOOLEAN, monte_carlo \in BOOLEAN, plots \in BOOLEAN :
          /\ ret' = AnalyzeOutcome(obj, detailed, monte_carlo, plots)
          /\ obj' = IF ret' = "self" THEN setattr(obj, "analysis", <<>>)
                    ELSE obj
    /\ method' = "analyze"
    /\ UNCHANGED <<logic, df, args, ran>>
    /\ UNCHANGED engineVars

\* Variant: the summary survives clear_backtest_results.
clear_backtest_results_KeepsSummary(o) ==
    LET o1 == IF hasattr(o, "equity_curve") THEN delattr(o, "equity_curve")
              ELSE o
    IN  IF hasattr(o1, "trades") THEN delattr(o1, "trades") ELSE o1

\* clear_backtest_results (lines 138-152)
clear_backtest_results(o) ==
    LET o1 == IF hasattr(o, "equity_curve") THEN delattr(o, "equity_curve")
              ELSE o
        o2 == IF hasattr(o1, "trades") THEN delattr(o1, "trades") ELSE o1
    IN  IF hasattr(o2, "summary") THEN delattr(o2, "summary") ELSE o2

\* clear_analysis (lines 154-162)
clear_analysis(o) ==
    IF hasattr(o, "analysis") THEN delattr(o, "analysis") ELSE o

\* clear_all (lines 164-170)
clear_all(o) == clear_analysis(clear_backtest_results(o))

ClearBacktestResults ==
    /\ method' = "clear_backtest_results"
    /\ obj' = clear_backtest_results(obj)
    /\ ret' = "self"
    /\ ran' = FALSE
    /\ UNCHANGED <<logic, df, args>>
    /\ UNCHANGED engineVars

ClearAnalysis ==
    /\ method' = "clear_analysis"
    /\ obj' = clear_analysis(obj)
    /\ ret' = "self"
    /\ UNCHANGED <<logic, df, args, ran>>
    /\ UNCHANGED engineVars

ClearAll ==
    /\ method' = "clear_all"
    /\ obj' = clear_all(obj)
    /\ ret' = "self"
    /\ ran' = FALSE
    /\ UNCHANGED <<logic, df, args>>
    /\ UNCHANGED engineVars

\* no engine call is in progress
NoCall ==
    /\ pc = "entry"
    /\ feed = "free"
    /\ N = 0
    /\ i = 0
    /\ bar = Row(NaN, FALSE, FALSE, FALSE, FALSE)
    /\ config = ZeroConfig
    /\ starting_cash = R(StartingCash)
    /\ twinConfig = ZeroConfig
    /\ nanK = -1
    /\ lens = AllLen(0)
    /\ exc = "none"
    /\ calls = 1
    /\ run = Locals(0)
    /\ twin = Locals(0)

InitSAST ==
    /\ NoCall
    /\ obj = NewObject
    /\ logic \in Logics
    /\ df \in SeqsUpTo(SastRows, MaxRows)
    /\ args \in {ZeroConfig, [commission |-> R(25), commission_pct |-> <<1, 4>>]}
    /\ ret = "none"
    /\ method = "none"
    /\ ran = FALSE

NextSAST ==
    RunBacktest \/ Analyze \/ ClearBacktestResults \/ ClearAnalysis \/ ClearAll

SpecSAST == InitSAST /\ [][NextSAST]_vars

\* The result attributes are plain instance attributes, which the code
\* using the object can assign: the methods run on an object with any of
\* them present.  At the start a present attribute holds a value other
\* than the empty one of an absent attribute.
ResultAttrs == {"equity_curve", "trades", "summary", "analysis"}

ObjectWith(names) ==
    [attrs |-> names,
     equity_curve |-> IF "equity_curve" \in names THEN <<R(StartingCash)>>
                      ELSE <<>>,
     trades |-> IF "trades" \in names
                THEN <<EntryRecord(1, R(50), "long", R(200))>> ELSE <<>>,
     summary |-> IF "summary" \in names THEN <<"summary">> ELSE <<>>,
     analysis |-> IF "analysis" \in names THEN <<"analysis">> ELSE <<>>]

InitAttrs ==
    /\ NoCall
    /\ obj \in {ObjectWith(names) : names \in SUBSET ResultAttrs}
    /\ logic \in Logics
    /\ df \in {<<>>, <<Row(R(50), FALSE, FALSE, FALSE, FALSE)>>,
               <<Row(NaN, FALSE, FALSE, FALSE, FALSE)>>}
    /\ args = ZeroConfig
    /\ ret = "none"
    /\ method = "none"
    /\ ran = FALSE

SpecAttrs == InitAttrs /\ [][NextSAST]_vars

----------------------------------------------------------------------------
(* Vocabulary of the properties *)

EntryKeys == {"entry_idx", "entry_price", "direction", "shares"}
ExitKeys == {"exit_idx", "exit_price", "profit", "duration"}

Finalized(t) == "exit_idx" \in DOMAIN t
NumFinalized(st) ==
    Cardinality({j \in 1..Len(st.trades) : Finalized(st.trades[j])})
LastTrade(st) == st.trades[Len(st.trades)]

\* the step is an iteration of the loop, for bar i, on the row bar'
BarStep == pc = "loop" /\ i' = i + 1
\* the twin's close in that iteration is NaN
TwinSawNaN == isnan(bar'.price) \/ nanK' # nanK

SameBut(st1, st2) ==
    /\ st2.position = st1.position
    /\ st2.cash = st1.cash
    /\ st2.shares = st1.shares
    /\ st2.entry_price = st1.entry_price
    /\ st2.entry_idx = st1.entry_idx
    /\ st2.trades = st1.trades

----------------------------------------------------------------------------
(* C1 *)

Balance(st) ==
    LET open == Len(st.trades) - NumFinalized(st)
    IN  /\ open \in {0, 1}
        /\ open = 1 <=> st.position \in {1, -1}

NoSecondOpen(st1, st2) ==
    st1.position # 0 => Len(st2.trades) = Len(st1.trades)

\* C1: at every point of every call, opened trades minus finalized trades is
\* 0 or 1, it is 1 exactly when the position is Long or Short, and no trade
\* is appended while a position is open.
C1_OnePosition ==
    /\ [](Balance(run) /\ Balance(twin))
    /\ [][calls' = calls =>
            NoSecondOpen(run, run') /\ NoSecondOpen(twin, twin')]_vars

\* a second trade is open after the first one was finalized
C1_Witness ==
    /\ Len(run.trades) = 2
    /\ run.position = -1
    /\ Finalized(run.trades[1])

----------------------------------------------------------------------------
(* C2 *)

\* C2: for N >= 1 the returned equity curve has exactly N entries and the
\* engine has written every index 0..N-1.
C2_EquityComplete ==
    (pc = "done" /\ N >= 1) =>
        \A st \in {run, twin} :
            /\ DOMAIN st.equity_curve = 0..(N - 1)
            /\ Cardinality(DOMAIN st.equity_curve) = N
            /\ st.assigned = 0..(N - 1)

\* a call returned after NaN bars and bars in a short position
C2_Witness ==
    /\ pc = "done"
    /\ N >= 4
    /\ run.position = -1
    /\ isnan(bar.price)

----------------------------------------------------------------------------
(* C3 *)

\* C3: equity_curve[0] is the configured starting_cash, and the first entry
\* is sized with that starting_cash.
C3_ConfiguredStartingCash ==
    pc \in {"loop", "done"} =>
        /\ run.equity_curve[0] = starting_cash
        /\ Len(run.trades) >= 1 =>
              run.trades[1].shares =
                  EntryShares(starting_cash, run.trades[1].entry_price, config)

----------------------------------------------------------------------------
(* C4 *)

\* C4: at a non-NaN bar where the position is Flat and buy and short are
\* both true, a Long is opened (one trade with direction long is appended),
\* whatever sell and cover are.
C4_BuyWinsTie ==
    [][(BarStep /\ ~isnan(bar'.price) /\ run.position = 0
            /\ bar'.buy /\ bar'.short)
        => /\ run'.position = 1
           /\ Len(run'.trades) = Len(run.trades) + 1
           /\ LastTrade(run').direction = "long"
           /\ LastTrade(run').entry_idx = i]_vars

\* a position was opened at the bar last read, with all four signals true
C4_Witness ==
    /\ pc = "loop"
    /\ bar.buy /\ bar.short /\ bar.sell /\ bar.cover
    /\ ~isnan(bar.price)
    /\ run.position # 0
    /\ run.entry_idx = i - 1
    /\ Len(run.trades) = 2

----------------------------------------------------------------------------
(* C5 *)

\* C5: at a bar whose close is NaN, equity_curve[i] = equity_curve[i-1] and
\* position, cash, shares, entry_price, entry_idx and the trades are
\* unchanged, in every position state and for every signal combination.
C5_NaNFrame ==
    [][/\ (BarStep /\ isnan(bar'.price)) =>
            /\ run'.equity_curve[i] = run.equity_curve[i - 1]
            /\ SameBut(run, run')
       /\ (BarStep /\ TwinSawNaN) =>
            /\ twin'.equity_curve[i] = twin.equity_curve[i - 1]
            /\ SameBut(twin, twin')]_vars

\* a NaN bar was read in a long position with sell (and buy) asserted
C5_Witness ==
    /\ isnan(bar.price)
    /\ i >= 3
    /\ bar.sell /\ bar.buy
    /\ run.position = 1
    /\ run.equity_curve[i - 1] # R(0)

----------------------------------------------------------------------------
(* C6 *)

\* C6: when the twin call differs from the run only in that the close of
\* bar k >= 1 is NaN, and no signal is true at k (nanK = k), the twin has
\* equity_curve[k] = equity_curve[k-1] and the same trades as the run.
C6_NaNInsert ==
    nanK >= 1 =>
        /\ twin.equity_curve[nanK] = twin.equity_curve[nanK - 1]
        /\ twin.trades = run.trades

\* the NaN replaced a close that moved the run's equity during a trade that
\* was later closed
C6_Witness ==
    /\ pc = "done"
    /\ nanK >= 2
    /\ Len(run.trades) = 1
    /\ Finalized(run.trades[1])
    /\ run.trades[1].entry_idx < nanK
    /\ run.equity_curve[nanK] # run.equity_curve[nanK - 1]
    /\ twin.equity_curve # run.equity_curve

----------------------------------------------------------------------------
(* C7 *)

ScenarioATrade ==
    [entry_idx |-> 1, entry_price |-> R(100), direction |-> "long",
     shares |-> R(100), exit_idx |-> 3, exit_price |-> R(102),
     profit |-> R(200), duration |-> 2]

ScenarioAEquity ==
    [k \in 0..4 |->
        R(CASE k = 0 -> 10000 [] k = 1 -> 10000 [] k = 2 -> 10100
            [] k = 3 -> 10200 [] k = 4 -> 10200)]

\* C7: on Scenario A (closes 100,100,101,102,101, buy at bar 1, sell at bar
\* 3, no short or cover, zero commissions) the call returns exactly one
\* trade, long 100 shares from bar 1 at 100 to bar 3 at 102 with profit 200
\* and duration 2, and the equity curve 10000,10000,10100,10200,10200.
C7_ScenarioA ==
    (feed = "A" /\ pc = "done") =>
        /\ run.trades = <<ScenarioATrade>>
        /\ run.equity_curve = ScenarioAEquity

\* the call on Scenario A has returned
C7_Witness ==
    /\ feed = "A"
    /\ pc = "done"
    /\ i = 5
    /\ config = ZeroConfig
    /\ bar = ScenarioA[4]

----------------------------------------------------------------------------
(* C8 *)

OnlyLastOpen(st) ==
    \A j \in 1..Len(st.trades) :
        LET t == st.trades[j]
        IN  /\ j < Len(st.trades) => Finalized(t)
            /\ j = Len(st.trades) => (Finalized(t) <=> st.position = 0)
            /\ DOMAIN t = IF Finalized(t) THEN EntryKeys \cup ExitKeys
                          ELSE EntryKeys

\* C8: only the last trade of the list can lack the exit fields, and it
\* lacks them exactly when a Long or Short position is open; every earlier
\* trade is finalized.  A call that ends in an open Short returns a last
\* trade with the entry fields only.
C8_OnlyLastOpen ==
    /\ OnlyLastOpen(run)
    /\ OnlyLastOpen(twin)
    /\ (pc = "done" /\ run.position # 0) =>
            /\ Len(run.trades) >= 1
            /\ DOMAIN LastTrade(run) = EntryKeys

\* a call returned with a finalized trade followed by an open short
C8_Witness ==
    /\ pc = "done"
    /\ run.position = -1
    /\ Len(run.trades) = 2
    /\ LastTrade(run).direction = "short"
    /\ ~Finalized(LastTrade(run))

----------------------------------------------------------------------------
(* C9 *)

Min(a, b) == IF a < b THEN a ELSE b

\* C9: with prices and signals fixed and commission and commission_pct of
\* the twin each at least the run's, every finalized trade of the twin has a
\* profit no greater than the run's trade at the same place in the list.
C9_CommissionMonotone ==
    nanK = -1 =>
        \A j \in 1..Min(Len(run.trades), Len(twin.trades)) :
            (Finalized(run.trades[j]) /\ Finalized(twin.trades[j])) =>
                RLe(twin.trades[j].profit, run.trades[j].profit)

----------------------------------------------------------------------------
(* C10 *)

\* The cash held before the entry of t is equity_curve[t.entry_idx - 1] (the
\* position was Flat at the end of that bar) and the cash held after its
\* exit is equity_curve[t.exit_idx].
CashChange(st, t) ==
    RSub(st.equity_curve[t.exit_idx], st.equity_curve[t.entry_idx - 1])

\* C10: the profit of every finalized trade equals the cash held right after
\* its exit minus the cash held right before its entry.
C10_ProfitIsCashChange ==
    \A j \in 1..Len(run.trades) :
        Finalized(run.trades[j]) =>
            run.trades[j].profit = CashChange(run, run.trades[j])

----------------------------------------------------------------------------
(* C11 *)

NegativeCommission(cfg) ==
    ~RLe(R(0), cfg.commission) \/ ~RLe(R(0), cfg.commission_pct)

\* the call failed before the loop, or has not started
NotPastEntry == pc = "entry" \/ (pc = "error" /\ i = 0)

\* C11: a call with a negative commission parameter is rejected before the
\* bar loop starts, and no call ends in a division by zero found mid-run.
C11_RejectedBeforeLoop ==
    /\ NegativeCommission(config) => NotPastEntry
    /\ exc # "ZeroDivisionError"

----------------------------------------------------------------------------
(* C12 *)

\* C12: when a signal array has a length other than N, or N = 0, the call
\* fails before any bar is processed and returns nothing.
C12_FailsBeforeAnyBar ==
    (N = 0 \/ lens # AllLen(N)) => NotPastEntry

----------------------------------------------------------------------------
(* C13 *)

\* C13: a call on the rows of Scenario A made after any earlier call (on
\* Scenario A itself or on other inputs, returned or failed) returns what a
\* first call on those rows returns: the same trades and equity curve.
C13_SecondCallSame ==
    (calls = 2 /\ pc = "done") =>
        /\ run.trades = <<ScenarioATrade>>
        /\ run.equity_curve = ScenarioAEquity
        /\ twin.trades = run.trades
        /\ twin.equity_curve = run.equity_curve

\* the second call has returned
C13_Witness ==
    /\ calls = 2
    /\ pc = "done"
    /\ feed = "A"
    /\ i = 5
    /\ Len(run.trades) = 1

----------------------------------------------------------------------------
(* C14, C15 *)

\* price*shares*commission_pct + commission_fixed, as the specification
\* writes it
SpecCommission(price, shares) ==
    RAdd(RMul(RMul(price, shares), config.commission_pct), config.commission)

\* the last trade of st2 is the last trade of st1 with the given exit fields
\* added, and the earlier trades are the same
FinalizedWith(st1, st2, k, price, profit) ==
    /\ Len(st2.trades) = Len(st1.trades)
    /\ \A j \in 1..(Len(st1.trades) - 1) : st2.trades[j] = st1.trades[j]
    /\ \A f \in EntryKeys : LastTrade(st2)[f] = LastTrade(st1)[f]
    /\ DOMAIN LastTrade(st2) = EntryKeys \cup ExitKeys
    /\ LastTrade(st2).exit_idx = k
    /\ LastTrade(st2).exit_price = price
    /\ LastTrade(st2).profit = profit
    /\ LastTrade(st2).duration = k - st1.entry_idx

\* C14: a sell signal at a non-NaN bar i in a Long position gives
\* cash = price*shares - trade_commission, finalizes the last trade with
\* exit index i, exit price = price, profit = (price - entry_price)*shares
\* - trade_commission and duration = i - entry_index, and leaves the
\* position Flat with shares = 0.
C14_SellClosesLong ==
    [][(BarStep /\ ~isnan(bar'.price) /\ run.position = 1 /\ bar'.sell) =>
        LET price == bar'.price
            tc == SpecCommission(price, run.shares)
        IN  /\ run'.cash = RSub(RMul(price, run.shares), tc)
            /\ FinalizedWith(run, run', i, price,
                  RSub(RMul(RSub(price, run.entry_price), run.shares), tc))
            /\ run'.position = 0
            /\ run'.shares = R(0)]_vars

\* a long position was sold at the bar last read, at another price than it
\* was bought, with both commissions charged
C14_Witness ==
    /\ pc = "loop"
    /\ run.position = 0
    /\ Len(run.trades) >= 1
    /\ LastTrade(run).direction = "long"
    /\ Finalized(LastTrade(run))
    /\ LastTrade(run).exit_idx = i - 1
    /\ LastTrade(run).exit_price # LastTrade(run).entry_price
    /\ config.commission # R(0)
    /\ config.commission_pct # R(0)

\* C15: a cover signal at a non-NaN bar i in a Short position gives
\* cash = (2*entry_price - price)*shares - trade_commission, finalizes the
\* last trade with exit index i, exit price = price, profit =
\* (entry_price - price)*shares - trade_commission and duration = i -
\* entry_index, and leaves the position Flat with shares = 0.
C15_CoverClosesShort ==
    [][(BarStep /\ ~isnan(bar'.price) /\ run.position = -1 /\ bar'.cover) =>
        LET price == bar'.price
            tc == SpecCommission(price, run.shares)
        IN  /\ run'.cash =
                  RSub(RMul(RSub(RMul(R(2), run.entry_price), price),
                            run.shares), tc)
            /\ FinalizedWith(run, run', i, price,
                  RSub(RMul(RSub(run.entry_price, price), run.shares), tc))
            /\ run'.position = 0
            /\ run'.shares = R(0)]_vars

\* a short position was covered at the bar last read, at another price than
\* it was opened, with both commissions charged
C15_Witness ==
    /\ pc = "loop"
    /\ run.position = 0
    /\ Len(run.trades) >= 1
    /\ LastTrade(run).direction = "short"
    /\ Finalized(LastTrade(run))
    /\ LastTrade(run).exit_idx = i - 1
    /\ LastTrade(run).exit_price # LastTrade(run).entry_price
    /\ config.commission # R(0)
    /\ config.commission_pct # R(0)

----------------------------------------------------------------------------
(* C16 *)

\* C16: at a non-NaN bar i in the Flat state, buy (or short without buy)
\* sets shares = cash / (price*(1+commission_pct) + commission_fixed) from
\* the cash held before, cash = 0, entry_price = price, entry_index = i and
\* appends one trade with these entry fields and the direction; with neither
\* signal the state stays Flat and cash and trades are unchanged.
C16_FlatBar ==
    [][(BarStep /\ ~isnan(bar'.price) /\ run.position = 0) =>
        LET price == bar'.price
            sized == RDiv(run.cash,
                        RAdd(RMul(price, RAdd(R(1), config.commission_pct)),
                             config.commission))
            dir == IF bar'.buy THEN "long" ELSE "short"
        IN  IF bar'.buy \/ bar'.short
            THEN /\ run'.shares = sized
                 /\ run'.cash = R(0)
                 /\ run'.entry_price = price
                 /\ run'.entry_idx = i
                 /\ run'.position = IF bar'.buy THEN 1 ELSE -1
                 /\ run'.trades =
                        Append(run.trades,
                               [entry_idx |-> i, entry_price |-> price,
                                direction |-> dir, shares |-> run'.shares])
            ELSE /\ run'.position = 0
                 /\ run'.cash = run.cash
                 /\ run'.trades = run.trades]_vars

\* a short was opened at the bar last read, by short without buy, with both
\* commissions charged and with the cash an earlier trade left
C16_Witness ==
    /\ pc = "loop"
    /\ run.position = -1
    /\ run.entry_idx = i - 1
    /\ bar.short /\ ~bar.buy
    /\ Len(run.trades) = 2
    /\ run.shares # R(0)
    /\ config.commission # R(0)
    /\ config.commission_pct # R(0)

----------------------------------------------------------------------------
(* C17 *)

\* C17: after the signals of a non-NaN bar i are processed,
\* equity_curve[i] is cash if Flat, shares*price if Long and
\* (2*entry_price - price)*shares if Short, with the values after the bar's
\* transition.
C17_MarkToMarket ==
    [][(BarStep /\ ~isnan(bar'.price)) =>
        run'.equity_curve[i] =
            CASE run'.position = 0 -> run'.cash
              [] run'.position = 1 -> RMul(run'.shares, bar'.price)
              [] run'.position = -1 ->
                    RMul(RSub(RMul(R(2), run'.entry_price), bar'.price),
                         run'.shares)]_vars

\* a short position held at a close other than its entry price
C17_Witness ==
    /\ pc = "loop"
    /\ run.position = -1
    /\ ~isnan(bar.price)
    /\ bar.price # run.entry_price
    /\ run.entry_idx < i - 1
    /\ run.equity_curve[i - 1] # run.equity_curve[i - 2]

----------------------------------------------------------------------------
(* C18 *)

\* C18: signals that do not match the position have no effect.  While Long
\* only sell closes, and without sell position, cash, shares and trades are
\* unchanged whatever buy, short and cover are; while Short the same with
\* cover; while Flat, sell and cover change nothing.
C18_OtherSignalsIgnored ==
    [][(BarStep /\ ~isnan(bar'.price)) =>
        /\ (run.position = 1 /\ ~bar'.sell) => SameBut(run, run')
        /\ (run.position = 1 /\ bar'.sell) => run'.position = 0
        /\ (run.position = -1 /\ ~bar'.cover) => SameBut(run, run')
        /\ (run.position = -1 /\ bar'.cover) => run'.position = 0
        /\ (run.position = 0 /\ ~bar'.buy /\ ~bar'.short) =>
              SameBut(run, run')]_vars

\* a long position was held through a bar with buy, short and cover true
C18_Witness ==
    /\ pc = "loop"
    /\ run.position = 1
    /\ run.entry_idx < i - 1
    /\ ~isnan(bar.price)
    /\ bar.buy /\ bar.short /\ bar.cover /\ ~bar.sell

----------------------------------------------------------------------------
(* C19 *)

\* C19: bar 0 is not processed: whatever the signals and the close of bar 0
\* are, the position after bar 0 is Flat with no trade, equity_curve[0] is
\* the starting cash, and no trade has entry or exit index 0.
C19_BarZeroInert ==
    pc \in {"loop", "done"} =>
        /\ run.equity_curve[0] = R(StartingCash)
        /\ i = 1 => (run.position = 0 /\ run.trades = <<>>)
        /\ \A j \in 1..Len(run.trades) :
              /\ run.trades[j].entry_idx >= 1
              /\ Finalized(run.trades[j]) => run.trades[j].exit_idx >= 1

\* the loop is about to start after a bar 0 with a close and all signals true
C19_Witness ==
    /\ pc = "loop"
    /\ i = 1
    /\ calls = 1
    /\ ~isnan(bar.price)
    /\ bar.buy /\ bar.sell /\ bar.short /\ bar.cover

----------------------------------------------------------------------------
(* C20 *)

\* C20: after run_backtest was called on validated data with a valid
\* strategy, the equity_curve and trades stored on the object are those
\* execute_backtest_loop returns for the data, the prepared signals and the
\* given commission and commission_pct.
C20_StoresEngineResult ==
    (method = "run_backtest" /\ ValidStrategy(logic) /\ ValidData(df) /\ Len(df) >= 1) =>
        LET result == execute_backtest_loop(PrepareSignals(df, logic), args)
        IN  /\ ret = "self"
            /\ hasattr(obj, "equity_curve")
            /\ hasattr(obj, "trades")
            /\ obj.equity_curve = result.equity_curve
            /\ obj.trades = result.trades

----------------------------------------------------------------------------
(* C23 *)

\* every finalized trade lasts at least one bar, and every trade is entered
\* after the bar at which the trade before it was closed
OneTransitionPerBar(st) ==
    \A j \in 1..Len(st.trades) :
        LET t == st.trades[j]
        IN  /\ Finalized(t) =>
                /\ t.exit_idx - t.entry_idx >= 1
                /\ t.duration = t.exit_idx - t.entry_idx
            /\ j > 1 =>
                /\ Finalized(st.trades[j - 1])
                /\ t.entry_idx > st.trades[j - 1].exit_idx

\* C23: at most one position transition happens per bar: every finalized
\* trade has exit index - entry index >= 1, and every trade's entry index is
\* strictly greater than the exit index of the trade before it, so the
\* indices increase strictly along the trade list.
C23_OneTransitionPerBar ==
    OneTransitionPerBar(run) /\ OneTransitionPerBar(twin)

\* a trade was closed after one bar, at the bar last read, whose row also
\* had a buy or a short signal, and the run is Flat
C23_Witness ==
    /\ pc = "loop"
    /\ calls = 1
    /\ run.position = 0
    /\ Len(run.trades) = 1
    /\ LastTrade(run).exit_idx = i - 1
    /\ LastTrade(run).duration = 1
    /\ ~isnan(bar.price)
    /\ bar.buy \/ bar.short

----------------------------------------------------------------------------
(* C24 *)

Positive(x) == x[2] > 0 /\ x[1] > 0

\* cash is positive while Flat, shares are positive while a position is open
Solvent(st) ==
    IF st.position = 0 THEN Positive(st.cash) ELSE Positive(st.shares)

\* C24: with positive non-NaN prices, positive starting cash and
\* non-negative commissions, the cash held while Flat and the shares held
\* while a position is open are strictly positive in every reachable state:
\* a bar at a positive price takes a state where this holds to a state
\* where it holds (it holds at the start, and a NaN bar changes nothing).
C24_StaysSolvent ==
    [][(BarStep /\ calls' = calls /\ ~NegativeCommission(config)
            /\ Positive(bar'.price) /\ Solvent(run))
        => Solvent(run')]_vars

----------------------------------------------------------------------------
(* C25 *)

CashOrShares(st) ==
    /\ st.position \in {0, 1, -1}
    /\ st.position # 0 => st.cash = R(0)
    /\ st.position = 0 => st.shares = R(0)

\* C25: cash and shares are never held at the same time: at the end of
\* every bar cash is 0 if the position is Long or Short and shares is 0 if
\* it is Flat, and position is one of 0, 1 and -1.
C25_CashOrShares ==
    pc \in {"loop", "done"} => CashOrShares(run) /\ CashOrShares(twin)

\* a short position opened with the cash a trade left, at the bar last read
C25_Witness ==
    /\ pc = "loop"
    /\ calls = 1
    /\ run.position = -1
    /\ run.entry_idx = i - 1
    /\ Len(run.trades) = 2
    /\ run.trades[1].profit # R(0)
    /\ run.shares # R(0)
    /\ run.cash = R(0)

----------------------------------------------------------------------------
(* C21 *)

\* the step is a call of the method
Calls(name) == method' = name

\* C21: in any sequence of run_backtest, analyze, clear_backtest_results,
\* clear_analysis and clear_all calls on one object, an analyze call made
\* when no run_backtest has completed since the object was created and
\* since the last clear_backtest_results or clear_all raises RuntimeError
\* and neither sets nor changes the analysis attribute.
C21_AnalyzeNeedsBacktest ==
    [][(Calls("analyze") /\ ~ran) =>
        /\ ret' = "RuntimeError"
        /\ hasattr(obj', "analysis") = hasattr(obj, "analysis")
        /\ obj'.analysis = obj.analysis]_vars

\* analyze was refused on an object with a valid strategy and valid data,
\* on which run_backtest could have been called
C21_Witness ==
    /\ method = "analyze"
    /\ ret = "RuntimeError"
    /\ ~ran
    /\ ~hasattr(obj, "analysis")
    /\ ValidStrategy(logic) /\ ValidData(df) /\ Len(df) >= 1

----------------------------------------------------------------------------
(* C22 *)

BacktestAttrs == {"equity_curve", "trades", "summary"}

\* the attributes named are present or absent as before, with their values
Keeps(o1, o2, names) ==
    \A name \in names :
        /\ hasattr(o2, name) = hasattr(o1, name)
        /\ o2[name] = o1[name]

\* the method removes exactly the attributes named, leaves the object as it
\* is when none of them is present, and returns
Clears(names) ==
    /\ ret' = "self"
    /\ obj'.attrs = obj.attrs \ names
    /\ Keeps(obj, obj', ResultAttrs \ names)
    /\ obj.attrs \cap names = {} => obj' = obj

\* C22: clear_analysis removes only analysis and leaves equity_curve,
\* trades and summary unchanged; clear_backtest_results removes
\* equity_curve, trades and summary and leaves analysis unchanged;
\* clear_all leaves none of the four present; each is a no-op on attributes
\* that are absent and never raises.
C22_ClearFrames ==
    [][/\ Calls("clear_analysis") => Clears({"analysis"})
       /\ Calls("clear_backtest_results") => Clears(BacktestAttrs)
       /\ Calls("clear_all") => Clears(ResultAttrs)]_vars

\* clear_backtest_results has returned on an object that keeps the analysis
\* it had at the start and nothing else
C22_Witness ==
    /\ method = "clear_backtest_results"
    /\ ret = "self"
    /\ obj.attrs = {"analysis"}
    /\ obj.analysis = ObjectWith({"analysis"}).analysis

====
